---- MODULE Spec2Model ----
(***************************************************************************)
(* PharmWatch back end: the loader of the canonical CSV into SQLite        *)
(* (load_sqlite.py, Spec), the day merge of price and promotion feeds      *)
(* (sp_merge_day.py, SpecMerge), the conversions of a price and of a unit  *)
(* price from the feed to the database (SpecConv) and the daily pipeline   *)
(* (sp_pipeline.py, SpecPipeline).                                         *)
(*                                                                         *)
(* Text is a sequence of one-character strings, so that trimming, case     *)
(* folding, separator replacement and number parsing are computed and not  *)
(* assumed.  An optional value (Python None / SQL NULL) is the empty       *)
(* sequence None, a present value v is Some(v) = <<v>>.                    *)
(***************************************************************************)
EXTENDS Integers, Sequences, FiniteSets, TLC

\* ------------------------------------------------------------------------
\* Bounds of the model
\* ------------------------------------------------------------------------
MaxRows == 2
MaxRuns == 2
MaxPromoLines == 3

\* ------------------------------------------------------------------------
\* Optional values
\* ------------------------------------------------------------------------
None == <<>>
Some(v) == <<v>>

\* ------------------------------------------------------------------------
\* Text helpers (str.strip, str.lower, str.replace)
\* ------------------------------------------------------------------------
IsSpace(c) == c \in {" ", "\t", "\n", "\r"}

RECURSIVE LStrip(_)
LStrip(s) == IF s # <<>> /\ IsSpace(Head(s)) THEN LStrip(Tail(s)) ELSE s

RECURSIVE RStrip(_)
RStrip(s) ==
    IF s # <<>> /\ IsSpace(s[Len(s)]) THEN RStrip(SubSeq(s, 1, Len(s) - 1)) ELSE s

Strip(s) == RStrip(LStrip(s))

UpperChars ==
    <<"A", "B", "C", "D", "E", "F", "G", "H", "I", "J", "K", "L", "M",
      "N", "O", "P", "Q", "R", "S", "T", "U", "V", "W", "X", "Y", "Z">>
LowerChars ==
    <<"a", "b", "c", "d", "e", "f", "g", "h", "i", "j", "k", "l", "m",
      "n", "o", "p", "q", "r", "s", "t", "u", "v", "w", "x", "y", "z">>

LowerChar(c) ==
    IF \E k \in 1..Len(UpperChars) : UpperChars[k] = c
    THEN LowerChars[CHOOSE k \in 1..Len(UpperChars) : UpperChars[k] = c]
    ELSE c

Lower(s) == [k \in 1..Len(s) |-> LowerChar(s[k])]

Replace(s, old, new) == [k \in 1..Len(s) |-> IF s[k] = old THEN new ELSE s[k]]

\* ------------------------------------------------------------------------
\* float(str): optional sign, then nan / inf / infinity (any case) or a
\* decimal literal digits[.digits] or .digits.  Exponents and digit
\* separators do not occur in the modelled input alphabet.
\* A number is mant / 10^scale with the sign in neg.
\* ------------------------------------------------------------------------
Digits == <<"0", "1", "2", "3", "4", "5", "6", "7", "8", "9">>
IsDigit(c) == \E k \in 1..Len(Digits) : Digits[k] = c
DigitVal(c) == (CHOOSE k \in 1..Len(Digits) : Digits[k] = c) - 1

RECURSIVE DigitsVal(_)
DigitsVal(s) ==
    IF s = <<>> THEN 0
    ELSE 10 * DigitsVal(SubSeq(s, 1, Len(s) - 1)) + DigitVal(s[Len(s)])

RECURSIVE Pow10(_)
Pow10(k) == IF k = 0 THEN 1 ELSE 10 * Pow10(k - 1)

AllDigits(s) == \A k \in 1..Len(s) : IsDigit(s[k])

DotPositions(s) == {k \in 1..Len(s) : s[k] = "."}

FloatError == [kind |-> "error", neg |-> FALSE, mant |-> 0, scale |-> 0]

RECURSIVE Normalize(_)
Normalize(v) ==
    IF v.kind # "num" THEN v
    ELSE IF v.mant = 0 THEN [v EXCEPT !.neg = FALSE, !.scale = 0]
    ELSE IF v.scale > 0 /\ v.mant % 10 = 0
         THEN Normalize([v EXCEPT !.mant = v.mant \div 10, !.scale = v.scale - 1])
    ELSE v

ParseUnsigned(body, neg) ==
    LET low == Lower(body) IN
    IF low = <<"n", "a", "n">>
    THEN [kind |-> "nan", neg |-> FALSE, mant |-> 0, scale |-> 0]
    ELSE IF low = <<"i", "n", "f">> \/ low = <<"i", "n", "f", "i", "n", "i", "t", "y">>
    THEN [kind |-> "inf", neg |-> neg, mant |-> 0, scale |-> 0]
    ELSE LET dots == DotPositions(body) IN
         IF Cardinality(dots) > 1 THEN FloatError
         ELSE LET d == IF dots = {} THEN Len(body) + 1 ELSE CHOOSE k \in dots : TRUE
                  ip == SubSeq(body, 1, d - 1)
                  fp == SubSeq(body, d + 1, Len(body))
              IN  IF Len(ip) + Len(fp) = 0 \/ ~AllDigits(ip) \/ ~AllDigits(fp)
                  THEN FloatError
                  ELSE Normalize([kind |-> "num", neg |-> neg,
                                  mant |-> DigitsVal(ip \o fp), scale |-> Len(fp)])

ParseFloat(s) ==
    LET t == Strip(s) IN
    IF t = <<>> THEN FloatError
    ELSE IF Head(t) = "-" THEN ParseUnsigned(Tail(t), TRUE)
    ELSE IF Head(t) = "+" THEN ParseUnsigned(Tail(t), FALSE)
    ELSE ParseUnsigned(t, FALSE)

\* round(): to the nearest integer, a tie to the even neighbour; n, d >= 0.
RoundHalfEven(n, d) ==
    LET q == n \div d
        r == n % d
    IN  IF 2 * r < d THEN q
        ELSE IF 2 * r > d THEN q + 1
        ELSE IF q % 2 = 0 THEN q ELSE q + 1

\* ------------------------------------------------------------------------
\* load_sqlite.py: field conversions
\* ------------------------------------------------------------------------
NoneText == <<"N", "o", "n", "e">>

\* agorot(x): raised is "" when the call returns, else the exception's name;
\* value is None or Some(integer).
agorot(x) ==
    IF x = <<>> \/ x = NoneText THEN [raised |-> "", value |-> None]
    ELSE LET v == ParseFloat(Replace(x, ",", ".")) IN
         CASE v.kind = "error" -> [raised |-> "", value |-> None]
           [] v.kind = "nan"   -> [raised |-> "ValueError", value |-> None]
           [] v.kind = "inf"   -> [raised |-> "OverflowError", value |-> None]
           [] OTHER ->
                LET m == RoundHalfEven(v.mant * 100, Pow10(v.scale)) IN
                [raised |-> "", value |-> Some(IF v.neg THEN 0 - m ELSE m)]

TrueTokens ==
    { <<"1">>, <<"t", "r", "u", "e">>, <<"y", "e", "s">>, <<"y">>, <<"t">> }

booly(x) == IF Lower(Strip(x)) \in TrueTokens THEN 1 ELSE 0

norm(s) == LET v == Strip(s) IN IF v # <<>> THEN Some(v) ELSE None

\* qty: float(quantity) unless the field is empty; ValueError gives None.
\* The separator is not replaced here.  SQLite stores a NaN as NULL.
ParseQty(x) ==
    IF x = <<>> THEN None
    ELSE LET v == ParseFloat(x) IN
         IF v.kind \in {"error", "nan"} THEN None ELSE Some(v)

\* ------------------------------------------------------------------------
\* Inputs of the loader: rows of the canonical CSV, stores, timestamps
\* ------------------------------------------------------------------------
Empty == <<>>
Blank == <<" ">>

RowSoap ==
    [barcode |-> <<"1", "1", "1">>, name |-> <<"S", "o", "a", "p">>,
     description |-> <<"B", "a", "r">>, manufacturer |-> <<"A", "c", "m", "e">>,
     country |-> <<"I", "L">>, price |-> <<"1", "0", ".", "0", "0">>,
     quantity |-> <<"2", "0", "0">>, qty_unit |-> <<"g">>,
     computed_unit_price |-> <<"5", ".", "0">>,
     has_promo |-> <<"T", "r", "u", "e">>, RewardTypes |-> <<"c", "l", "u", "b">>]

\* the same product, padded barcode, no metadata, another price, bad quantity
RowBare ==
    [barcode |-> <<" ", "1", "1", "1", " ">>, name |-> Empty,
     description |-> Blank, manufacturer |-> Empty,
     country |-> Empty, price |-> <<"1", "2", ",", "5", "0">>,
     quantity |-> <<"1", ",", "5">>, qty_unit |-> Empty,
     computed_unit_price |-> Empty,
     has_promo |-> <<"m", "a", "y", "b", "e">>, RewardTypes |-> Empty]

RowGel ==
    [barcode |-> <<"2", "2", "2">>, name |-> <<"G", "e", "l">>,
     description |-> Empty, manufacturer |-> <<" ", "A", "c", "m", "e">>,
     country |-> Empty, price |-> <<"5", ".", "0", "0">>,
     quantity |-> <<"0">>, qty_unit |-> <<"u", "n", "i", "t">>,
     computed_unit_price |-> Empty,
     has_promo |-> <<"F", "a", "l", "s", "e">>, RewardTypes |-> Empty]

RowNoBarcode == [RowSoap EXCEPT !.barcode = Blank]

RowBadPrice == [RowGel EXCEPT !.price = <<"a", "b", "c">>]

RowNaN == [RowSoap EXCEPT !.price = <<"n", "a", "n">>]

RowInf == [RowGel EXCEPT !.computed_unit_price = <<"i", "n", "f">>]

RowNegative == [RowGel EXCEPT !.price = <<"-", "5", ".", "0", "0">>]

RECURSIVE SeqsUpTo(_, _)
SeqsUpTo(S, n) ==
    IF n = 0 THEN {<<>>}
    ELSE LET shorter == SeqsUpTo(S, n - 1) IN
         shorter \cup {Append(q, x) : q \in {t \in shorter : Len(t) = n - 1}, x \in S}

\* Two families of sessions.  "catalog": two stores, two days, well-formed
\* rows of one product.  "mixed": one store, one day, rows of two products
\* among which some are skipped and some make a conversion raise.
Fixtures == {"catalog", "mixed"}

\* a file is the sequence of the names of its rows
Rows ==
    [soap |-> RowSoap, bare |-> RowBare, gel |-> RowGel, nobarcode |-> RowNoBarcode,
     badprice |-> RowBadPrice, nan |-> RowNaN, inf |-> RowInf,
     negative |-> RowNegative]

CatalogRows == {"soap", "bare"}
MixedRows == DOMAIN Rows

CatalogFiles == SeqsUpTo(CatalogRows, MaxRows)
MixedFiles == SeqsUpTo(MixedRows, MaxRows)

CsvFiles(f) == IF f = "catalog" THEN CatalogFiles ELSE MixedFiles

StoreIds(f) == IF f = "catalog" THEN {"072", "100"} ELSE {"072"}

ObservedAts(f) ==
    IF f = "catalog" THEN {"2025-08-27 07:00", "2025-08-28 07:00"}
    ELSE {"2025-08-28 07:00"}

DefaultChainId == "7290172900007"

\* ------------------------------------------------------------------------
\* The SQLite tables: a table is a function from its primary keys
\* ------------------------------------------------------------------------
EmptyTable == <<>>

EmptyDb ==
    [schema |-> FALSE, stores |-> EmptyTable, products |-> EmptyTable,
     current_prices |-> EmptyTable, price_observations |-> EmptyTable]

Put(tbl, key, rec) ==
    [k \in (DOMAIN tbl) \cup {key} |-> IF k = key THEN rec ELSE tbl[k]]

\* COALESCE(excluded.f, old.f)
Coalesce(new, old) == IF new # None THEN new ELSE old

\* INSERT INTO stores ... ON CONFLICT(store_id) DO UPDATE
StoreUpsert(stores, store_id, chain_id, name, city, address, observed_at) ==
    IF store_id \in DOMAIN stores
    THEN Put(stores, store_id,
             [chain_id |-> chain_id,
              name |-> Coalesce(name, stores[store_id].name),
              city |-> Coalesce(city, stores[store_id].city),
              address |-> Coalesce(address, stores[store_id].address),
              last_seen_at |-> observed_at])
    ELSE Put(stores, store_id,
             [chain_id |-> chain_id, name |-> name, city |-> city,
              address |-> address, last_seen_at |-> observed_at])

\* INSERT INTO products ... ON CONFLICT(barcode) DO UPDATE SET f = excluded.f
ProductUpsertOverwrite(products, barcode, name, manufacturer, country, description) ==
    Put(products, barcode,
        [name |-> name, manufacturer |-> manufacturer,
         country |-> country, description |-> description])

\* INSERT INTO products ... ON CONFLICT(barcode) DO UPDATE SET f = COALESCE(..)
ProductUpsert(products, barcode, name, manufacturer, country, description) ==
    IF barcode \in DOMAIN products
    THEN Put(products, barcode,
             [name |-> Coalesce(name, products[barcode].name),
              manufacturer |-> Coalesce(manufacturer, products[barcode].manufacturer),
              country |-> Coalesce(country, products[barcode].country),
              description |-> Coalesce(description, products[barcode].description)])
    ELSE Put(products, barcode,
             [name |-> name, manufacturer |-> manufacturer,
              country |-> country, description |-> description])

\* a current_prices upsert that keeps the stored quantity columns when the
\* incoming ones are NULL
CurrentUpsertKeep(cur, store_id, barcode, rec) ==
    IF <<store_id, barcode>> \in DOMAIN cur
    THEN Put(cur, <<store_id, barcode>>,
             [rec EXCEPT !.quantity = Coalesce(rec.quantity, cur[<<store_id, barcode>>].quantity),
                         !.qty_unit = Coalesce(rec.qty_unit, cur[<<store_id, barcode>>].qty_unit),
                         !.unit_price_per100_agorot =
                             Coalesce(rec.unit_price_per100_agorot,
                                      cur[<<store_id, barcode>>].unit_price_per100_agorot)])
    ELSE Put(cur, <<store_id, barcode>>, rec)

\* INSERT INTO current_prices ... ON CONFLICT(store_id, barcode) DO UPDATE
\* SET every column = excluded.column
CurrentUpsert(cur, store_id, barcode, rec) == Put(cur, <<store_id, barcode>>, rec)

\* INSERT OR REPLACE INTO price_observations
ObsInsertReplace(obs, key, rec) == [table |-> Put(obs, key, rec), appended |-> 1]

\* an insert whose duplicate is swallowed after the counter was advanced
ObsInsertMiscount(obs, key, rec) ==
    IF key \in DOMAIN obs
    THEN [table |-> obs, appended |-> 1]
    ELSE [table |-> Put(obs, key, rec), appended |-> 1]

\* INSERT INTO price_observations; sqlite3.IntegrityError on a duplicate key
\* is swallowed and the row is not counted
ObsInsert(obs, key, rec) ==
    IF key \in DOMAIN obs
    THEN [table |-> obs, appended |-> 0]
    ELSE [table |-> Put(obs, key, rec), appended |-> 1]

\* What the database holds once the process has ended without conn.commit():
\* the journal is rolled back to the last committed state.
AbandonKeepsWrites(committed, working) == working

Abandon(committed, working) == committed

\* The values the loop body derives from one CSV row (lines 132-151)
Convert(row) ==
    [barcode |-> Strip(row.barcode),
     name_long |-> norm(row.description),
     desc_short |-> norm(row.name),
     manufacturer |-> norm(row.manufacturer),
     country |-> norm(row.country),
     price_a |-> agorot(row.price),
     qty |-> ParseQty(row.quantity),
     qty_unit |-> IF row.qty_unit = <<>> THEN None ELSE Some(row.qty_unit),
     per100_a |-> agorot(row.computed_unit_price),
     has_promo |-> booly(row.has_promo),
     reward_types |-> row.RewardTypes]

\* the conversions of every row of the inputs, computed once
Converted == [n \in DOMAIN Rows |-> Convert(Rows[n])]

\* the exception the conversions of the row named n raise, "" when none
RowRaises(n) ==
    LET c == Converted[n] IN
    IF c.price_a.raised # "" THEN c.price_a.raised ELSE c.per100_a.raised

\* if not barcode or price_a is None: continue
Skipped(n) ==
    LET c == Converted[n] IN c.barcode = <<>> \/ c.price_a.value = None

CurrentRec(c, observed_at) ==
    [price_agorot |-> c.price_a.value, quantity |-> c.qty, qty_unit |-> c.qty_unit,
     unit_price_per100_agorot |-> c.per100_a.value, has_promo |-> c.has_promo,
     reward_types |-> c.reward_types, last_seen_at |-> observed_at]

\* an observation that always records has_promo = 0
ObsRecNoPromo(c, source_file) ==
    [price_agorot |-> c.price_a.value,
     unit_price_per100_agorot |-> c.per100_a.value, has_promo |-> 0,
     reward_types |-> c.reward_types, source_file |-> source_file]

ObsRec(c, source_file) ==
    [price_agorot |-> c.price_a.value,
     unit_price_per100_agorot |-> c.per100_a.value, has_promo |-> c.has_promo,
     reward_types |-> c.reward_types, source_file |-> source_file]

\* ------------------------------------------------------------------------
\* sp_merge_day.py: the promotion aggregate
\* ------------------------------------------------------------------------
\* code point order of the characters of the modelled texts
CharOrder ==
    <<" ", ",", "0", "1", "2", "3", "4", "5", "6", "7", "8", "9">>
    \o UpperChars \o LowerChars

CharRank(c) == CHOOSE k \in 1..Len(CharOrder) : CharOrder[k] = c

\* a < b for Python strings
RECURSIVE StrLess(_, _)
StrLess(a, b) ==
    IF b = <<>> THEN FALSE
    ELSE IF a = <<>> THEN TRUE
    ELSE IF Head(a) = Head(b) THEN StrLess(Tail(a), Tail(b))
    ELSE CharRank(Head(a)) < CharRank(Head(b))

\* sorted(S) for a set of strings
RECURSIVE SortedSeq(_)
SortedSeq(S) ==
    IF S = {} THEN <<>>
    ELSE LET m == CHOOSE x \in S : \A y \in S : x = y \/ StrLess(x, y)
         IN  <<m>> \o SortedSeq(S \ {m})

\* sep.join(parts)
RECURSIVE Join(_, _)
Join(parts, sep) ==
    IF parts = <<>> THEN <<>>
    ELSE IF Len(parts) = 1 THEN parts[1]
    ELSE parts[1] \o sep \o Join(Tail(parts), sep)

Range(f) == {f[k] : k \in DOMAIN f}

\* the non-empty values in the order of their first appearance
RECURSIVE FirstSeen(_)
FirstSeen(values) ==
    IF values = <<>> THEN <<>>
    ELSE LET front == SubSeq(values, 1, Len(values) - 1)
             v == values[Len(values)]
         IN  IF v = <<>> \/ v \in Range(front) THEN FirstSeen(front)
             ELSE Append(FirstSeen(front), v)

JoinedInOrder(values) == Join(FirstSeen(values), <<",">>)

\* lambda s: ",".join(sorted({v for v in s if v}))
JoinedSet(values) == Join(SortedSeq({v \in Range(values) : v # <<>>}), <<",">>)

\* lambda s: "1" if (s == "1").any() else "0"
AnyIsOne(values) == IF \E k \in DOMAIN values : values[k] = <<"1">> THEN <<"1">> ELSE <<"0">>

\* the lines of one group, in feed order
RECURSIVE Select(_, _)
Select(lines, key) ==
    IF lines = <<>> THEN <<>>
    ELSE IF Head(lines).ItemCode = key THEN <<Head(lines)>> \o Select(Tail(lines), key)
    ELSE Select(Tail(lines), key)

Column(lines, c) == [k \in 1..Len(lines) |-> lines[k][c]]

\* groupby(ItemCode) sorts the group keys
GroupKeys(lines) == SortedSeq({lines[k].ItemCode : k \in 1..Len(lines)})

\* lines 107-114: one row per ItemCode as written in the feed; the barcode
\* column is trimmed after the grouping
Aggregate(lines) ==
    LET keys == GroupKeys(lines) IN
    [i \in 1..Len(keys) |->
        LET g == Select(lines, keys[i]) IN
        [barcode |-> Strip(keys[i]),
         PromotionIds |-> JoinedSet(Column(g, "PromotionId")),
         RewardTypes |-> JoinedSet(Column(g, "RewardType")),
         AnyGift |-> AnyIsOne(Column(g, "IsGiftItem")),
         AnyMulti |-> AnyIsOne(Column(g, "AllowMultipleDiscounts"))]]

\* promotion lines of the feed
PromoLine(code, id, reward, gift, multi) ==
    [ItemCode |-> code, PromotionId |-> id, RewardType |-> reward,
     IsGiftItem |-> gift, AllowMultipleDiscounts |-> multi]

PromoLines ==
    { PromoLine(<<"1", "1", "1">>, <<"P", "2">>, <<"2">>, <<"0">>, <<"1">>),
      PromoLine(<<"1", "1", "1">>, <<"P", "1">>, <<"1", "0">>, <<"1">>, <<"0">>),
      PromoLine(<<"1", "1", "1">>, <<"P", "1", "0">>, Empty, <<"T", "r", "u", "e">>, Empty),
      PromoLine(<<"2", "2", "2">>, <<"P", "1">>, <<"1">>, Empty, <<"y", "e", "s">>),
      PromoLine(<<" ", "1", "1", "1">>, Empty, <<"2">>, <<"0">>, <<"0">>),
      PromoLine(<<"2", "2", "2">>, Empty, Empty, <<"0">>, <<"0">>) }

\* a promotion feed has at least one line
PromoFeeds == SeqsUpTo(PromoLines, MaxPromoLines) \ {<<>>}

\* ------------------------------------------------------------------------
\* sp_merge_day.py: price normalisation, unit price, join, output file
\* ------------------------------------------------------------------------
NaN == [kind |-> "nan", neg |-> FALSE, mant |-> 0, scale |-> 0]

\* to_float, lines 32-36: None when float() raises; the feeds are read with
\* dtype=str, so x is never None
to_float(x) ==
    LET v == ParseFloat(Strip(Replace(x, ",", "."))) IN
    IF v.kind = "error" THEN None ELSE Some(v)

\* sub in t
Contains(t, sub) ==
    \E k \in 1..(Len(t) - Len(sub) + 1) : SubSeq(t, k, k + Len(sub) - 1) = sub

\* the character U+201D (right double quotation mark), which a TLA+ string
\* cannot hold
RightQuote == "U+201D"

GramTexts == { <<"ג", "ר", "ם">>, <<"ג", "'">>, <<"ג">>, <<"ג", "ר">> }

MlMarks == { <<"מ", "\"", "ל">>, <<"מ", "״", "ל">>, <<"מ", RightQuote, "ל">>,
             <<"מ", "י", "ל", "י", "ל", "י", "ט", "ר">> }

UnitTexts == { <<"י", "ח", "י", "ד", "ה">>, <<"י", "ח", "'">>,
               <<"י", "ח", "י", "ד", "ו", "ת">>, <<"u", "n", "i", "t">> }

\* unit_kind, lines 25-30
unit_kind(text) ==
    LET t == Strip(text) IN
    IF t \in GramTexts THEN Some(<<"g">>)
    ELSE IF (\E m \in MlMarks : Contains(t, m)) \/ t = <<"מ", "ל">> THEN Some(<<"m", "l">>)
    ELSE IF t \in UnitTexts THEN Some(<<"u", "n", "i", "t">>)
    ELSE None

\* qty <= 0 for a float: false for a NaN
NotPositive(v) ==
    \/ v.kind = "num" /\ (v.neg \/ v.mant = 0)
    \/ v.kind = "inf" /\ v.neg

\* the quotient cut after two decimals instead of rounded
UnitPriceTruncated(price, qty) ==
    IF price.kind = "nan" \/ qty.kind = "nan" THEN NaN
    ELSE IF price.kind = "inf" THEN (IF qty.kind = "inf" THEN NaN ELSE price)
    ELSE IF qty.kind = "inf" THEN Normalize([price EXCEPT !.mant = 0])
    ELSE Normalize([kind |-> "num", neg |-> price.neg,
                    mant |-> (price.mant * 100 * 100 * Pow10(qty.scale))
                             \div (qty.mant * Pow10(price.scale)),
                    scale |-> 2])

\* round(price / (qty / 100.0), 2) for qty > 0 or NaN: the quotient to two
\* decimals, a tie to the even neighbour (round() decides a tie on the
\* float it is given; the arithmetic here is exact)
UnitPriceRounded(price, qty) ==
    IF price.kind = "nan" \/ qty.kind = "nan" THEN NaN
    ELSE IF price.kind = "inf" THEN (IF qty.kind = "inf" THEN NaN ELSE price)
    ELSE IF qty.kind = "inf" THEN Normalize([price EXCEPT !.mant = 0])
    ELSE Normalize([kind |-> "num", neg |-> price.neg,
                    mant |-> RoundHalfEven(price.mant * 100 * 100 * Pow10(qty.scale),
                                           qty.mant * Pow10(price.scale)),
                    scale |-> 2])

\* per100, lines 38-42; price and qty are None or Some(float), kind is None
\* or Some(text)
per100(price, qty, kind) ==
    IF price = None \/ qty = None THEN [value |-> None, label |-> None]
    ELSE IF NotPositive(qty[1]) THEN [value |-> None, label |-> None]
    ELSE IF kind = Some(<<"g">>)
         THEN [value |-> Some(UnitPriceRounded(price[1], qty[1])),
               label |-> Some(<<"p", "e", "r", "_", "1", "0", "0", "g">>)]
    ELSE IF kind = Some(<<"m", "l">>)
         THEN [value |-> Some(UnitPriceRounded(price[1], qty[1])),
               label |-> Some(<<"p", "e", "r", "_", "1", "0", "0", "m", "l">>)]
    ELSE [value |-> None, label |-> None]

\* str(n) for n >= 0
RECURSIVE NatText(_)
NatText(n) ==
    IF n < 10 THEN <<Digits[n + 1]>>
    ELSE Append(NatText(n \div 10), Digits[(n % 10) + 1])

\* the k decimal digits of n < 10^k
RECURSIVE FractionText(_, _)
FractionText(n, k) ==
    IF k = 0 THEN <<>>
    ELSE Append(FractionText(n \div 10, k - 1), Digits[(n % 10) + 1])

\* to_csv of a float cell: the shortest repr of the float; a NaN is written
\* as the empty string
FloatText(v) ==
    CASE v.kind = "nan" -> <<>>
      [] v.kind = "inf" -> (IF v.neg THEN <<"-">> ELSE <<>>) \o <<"i", "n", "f">>
      [] OTHER ->
           (IF v.neg THEN <<"-">> ELSE <<>>)
           \o NatText(v.mant \div Pow10(v.scale)) \o <<".">>
           \o (IF v.scale = 0 THEN <<"0">>
               ELSE FractionText(v.mant % Pow10(v.scale), v.scale))

\* to_csv of a cell that holds None, a NaN or a value
FloatCell(c) == IF c = None THEN <<>> ELSE FloatText(c[1])
TextCell(c) == IF c = None THEN <<>> ELSE c[1]
BoolCell(b) == IF b THEN <<"T", "r", "u", "e">> ELSE <<"F", "a", "l", "s", "e">>

\* Series.apply(to_float): a column with at least one float is a float
\* column and holds a NaN where to_float returned None
FloatColumn(col) ==
    IF \E k \in DOMAIN col : col[k] # None
    THEN [k \in DOMAIN col |-> IF col[k] = None THEN Some(NaN) ELSE col[k]]
    ELSE col

\* lines 83-97: the normalised price frame
NormalizePrices(lines) ==
    LET price == FloatColumn([k \in 1..Len(lines) |-> to_float(lines[k].ItemPrice)])
        quantity == FloatColumn([k \in 1..Len(lines) |-> to_float(lines[k].Quantity)])
    IN  [k \in 1..Len(lines) |->
            LET kind == unit_kind(lines[k].UnitQty)
                per == per100(price[k], quantity[k], kind)
            IN  [barcode |-> Strip(lines[k].ItemCode),
                 name |-> lines[k].ItemName,
                 price |-> price[k],
                 quantity |-> quantity[k],
                 qty_unit |-> kind,
                 computed_unit_price |-> per.value,
                 computed_unit_label |-> per.label,
                 manufacturer |-> lines[k].ManufacturerName,
                 country |-> lines[k].ManufactureCountry,
                 description |-> lines[k].ManufacturerItemDescription,
                 price_update_date |-> lines[k].PriceUpdateDate]]

\* the rows of the aggregate with the barcode, in the order of the aggregate
RECURSIVE Matches(_, _)
Matches(right, barcode) ==
    IF right = <<>> THEN <<>>
    ELSE IF Head(right).barcode = barcode
         THEN <<Head(right)>> \o Matches(Tail(right), barcode)
    ELSE Matches(Tail(right), barcode)

\* a price row joined with one row of the aggregate (m = None: no match,
\* the promotion cells are NaN), with has_promo of line 117
Joined(p, m) ==
    [barcode |-> p.barcode, name |-> p.name, price |-> p.price,
     quantity |-> p.quantity, qty_unit |-> p.qty_unit,
     computed_unit_price |-> p.computed_unit_price,
     computed_unit_label |-> p.computed_unit_label,
     has_promo |-> IF m = None THEN FALSE ELSE m[1].PromotionIds # <<>>,
     PromotionIds |-> IF m = None THEN None ELSE Some(m[1].PromotionIds),
     RewardTypes |-> IF m = None THEN None ELSE Some(m[1].RewardTypes),
     AnyGift |-> IF m = None THEN None ELSE Some(m[1].AnyGift),
     AnyMulti |-> IF m = None THEN None ELSE Some(m[1].AnyMulti),
     manufacturer |-> p.manufacturer, country |-> p.country,
     description |-> p.description, price_update_date |-> p.price_update_date]

\* line 116, dfp.merge(agg, on="barcode", how="left"): the rows of the left
\* frame in their order, each once per matching row of the right frame, and
\* once with NaN cells when nothing matches
RECURSIVE LeftJoin(_, _)
LeftJoin(left, right) ==
    IF left = <<>> THEN <<>>
    ELSE LET p == Head(left)
             ms == Matches(right, p.barcode)
         IN  (IF ms = <<>> THEN <<Joined(p, None)>>
              ELSE [k \in 1..Len(ms) |-> Joined(p, Some(ms[k]))])
             \o LeftJoin(Tail(left), right)

\* sort_values(["name", "barcode"]): ascending, rows with equal keys keep
\* their order
RowLess(a, b) ==
    \/ StrLess(a.name, b.name)
    \/ a.name = b.name /\ StrLess(a.barcode, b.barcode)

RECURSIVE InsertRow(_, _)
InsertRow(sorted, r) ==
    IF sorted = <<>> THEN <<r>>
    ELSE IF RowLess(r, Head(sorted)) THEN <<r>> \o sorted
    ELSE <<Head(sorted)>> \o InsertRow(Tail(sorted), r)

RECURSIVE SortRows(_)
SortRows(rows) ==
    IF rows = <<>> THEN <<>>
    ELSE InsertRow(SortRows(SubSeq(rows, 1, Len(rows) - 1)), rows[Len(rows)])

\* line 127, to_csv: one line of text cells per row of the frame
WriteRow(r) ==
    [barcode |-> r.barcode, name |-> r.name, price |-> FloatCell(r.price),
     quantity |-> FloatCell(r.quantity), qty_unit |-> TextCell(r.qty_unit),
     computed_unit_price |-> FloatCell(r.computed_unit_price),
     computed_unit_label |-> TextCell(r.computed_unit_label),
     has_promo |-> BoolCell(r.has_promo),
     PromotionIds |-> TextCell(r.PromotionIds),
     RewardTypes |-> TextCell(r.RewardTypes),
     AnyGift |-> TextCell(r.AnyGift), AnyMulti |-> TextCell(r.AnyMulti),
     manufacturer |-> r.manufacturer, country |-> r.country,
     description |-> r.description, price_update_date |-> r.price_update_date]

\* lines 116-127: the canonical file
MergedFile(left, right) ==
    LET rows == SortRows(LeftJoin(left, right)) IN
    [k \in 1..Len(rows) |-> WriteRow(rows[k])]

\* price lines of the feed
PriceLine(code, name, price, quantity, unitqty) ==
    [ItemCode |-> code, ItemName |-> name, ItemPrice |-> price,
     Quantity |-> quantity, UnitQty |-> unitqty,
     ManufacturerName |-> <<"A", "c", "m", "e">>, ManufactureCountry |-> <<"I", "L">>,
     ManufacturerItemDescription |-> Empty,
     PriceUpdateDate |-> <<"2", "0", "2", "5">>]

\* a product sold by weight
SoapLine ==
    PriceLine(<<"1", "1", "1">>, <<"S", "o", "a", "p">>, <<"1", "0", ".", "0", "0">>,
              <<"2", "0", "0">>, <<"ג", "ר", "ם">>)

\* the same product listed again, at another price
SoapAgainLine ==
    PriceLine(<<"1", "1", "1">>, <<"S", "o", "a", "p">>, <<"1", "2", ",", "5", "0">>,
              <<"2", "5", "0">>, <<"ג", "'">>)

\* a product sold by volume that no promotion line names
BalmLine ==
    PriceLine(<<"3", "3", "3">>, <<"B", "a", "l", "m">>, <<"7", ".", "9", "0">>,
              <<"3", "0">>, <<"3", "0", " ", "מ", "\"", "ל">>)

\* the price feeds of the day
PriceFeeds ==
    { <<SoapLine>>, <<SoapLine, BalmLine>>, <<SoapLine, SoapAgainLine>>,
      <<BalmLine, SoapAgainLine, SoapLine>> }

\* ------------------------------------------------------------------------
\* Inputs of the field conversions
\* ------------------------------------------------------------------------
\* decimal price strings: sign, integer part, fraction.  The fractions of
\* three digits that end in 5 are the multiples of 1/8, whose hundredfold
\* is a float exactly halfway between two integers.
Signs == { <<>>, <<"-">> }

PriceWholes == { <<"0">>, <<"1">>, <<"1", "2">>, <<"1", "9", "9">> }

PriceFractions ==
    { <<"0">>, <<"5">>, <<"0", "0">>, <<"0", "5">>, <<"2", "5">>, <<"5", "0">>,
      <<"9", "9">>, <<"1", "2", "5">>, <<"3", "7", "5">>, <<"6", "2", "5">>,
      <<"8", "7", "5">>, <<"1", "2", "4">>, <<"1", "2", "6">>, <<"9", "9", "9">> }

\* the fields of a price line that the unit price depends on; the only
\* quotients halfway between two hundredths are multiples of 1/8 (0.25 over
\* 200, 0.125 over 100), which the float holds exactly
UnitPrices ==
    { <<"1", "2", ".", "5", "0">>, <<"5", ".", "0", "0">>, <<"0", ".", "2", "5">>,
      <<"7", ",", "9", "0">>, <<"0", ".", "1", "2", "5">>, <<"a", "b", "c">>, Empty }

UnitQuantities ==
    { <<"2", "5", "0">>, <<"2", "0", "0">>, <<"1", "0", "0">>, <<"3", "0">>,
      <<"1", ",", "5">>, <<"0">>, <<"-", "5">>, Empty }

UnitQtyTexts ==
    { <<"ג", "ר", "ם">>, <<" ", "ג", "ר">>, <<"3", "0", " ", "מ", "\"", "ל">>,
      <<"מ", "ל">>, <<"י", "ח", "י", "ד", "ה">>, <<"k", "g">>, Empty }

\* ------------------------------------------------------------------------
\* State: the loader, the merge, the field conversions, the pipeline
\* ------------------------------------------------------------------------
VARIABLES
    fixture,            \* the family of inputs of the session
    db,                 \* the committed database
    tx,                 \* the database as the open connection sees it
    pc,                 \* "idle", "open", "loop", "done", "failed"
    args,               \* store_id, observed_at, csv_exists of the invocation
    csv,                \* the file named by --csv: the names of its rows
    rows_read, inserted_products, upsert_current, appended_obs,
    writes,             \* write statements executed by the invocation
    err,                \* the exception that ended the invocation, "" if none
    report,             \* the counts printed after the commit
    runs,               \* invocations started
    before,             \* the committed database when the invocation started
    repeat,             \* the invocation repeats the one that just committed
    mpc,                \* the merge: "start", "read", "aggregated", "written", "failed"
    promos,             \* the lines of the promotion feed the merge read
    agg,                \* the promotion aggregate
    merr,               \* the exception that ended the merge, "" if none
    prices,             \* the lines of the price feed the merge read
    dfp,                \* the normalised price frame
    out,                \* the lines of the canonical file the merge wrote
    fpc,                \* the conversions: "start", "price", "unit"
    fin,                \* the texts a conversion was given
    fout,               \* what the conversion returned and what was stored
    ppc,                \* the pipeline: "start", "ready", "running", "raised", "exited"
    pargs,              \* the command line of the pipeline
    pstage,             \* the position of the pipeline in its list of stages
    plog,               \* the stages launched so far, with their exit codes
    pexit               \* the exit code of the pipeline, None while it runs

vars ==
    <<fixture, db, tx, pc, args, csv, rows_read, inserted_products, upsert_current,
      appended_obs, writes, err, report, runs, before, repeat,
      mpc, promos, agg, merr, prices, dfp, out, fpc, fin, fout,
      ppc, pargs, pstage, plog, pexit>>

lvars ==
    <<fixture, db, tx, pc, args, csv, rows_read, inserted_products, upsert_current,
      appended_obs, writes, err, report, runs, before, repeat>>

mvars == <<mpc, promos, agg, merr, prices, dfp, out>>

fvars == <<fpc, fin, fout>>

pvars == <<ppc, pargs, pstage, plog, pexit>>

NoArgs == [store_id |-> "", observed_at |-> "", csv_exists |-> FALSE]
NoReport == <<>>

Init ==
    /\ fixture \in Fixtures
    /\ db = EmptyDb
    /\ tx = EmptyDb
    /\ pc = "idle"
    /\ args = NoArgs
    /\ csv = <<>>
    /\ rows_read = 0
    /\ inserted_products = 0
    /\ upsert_current = 0
    /\ appended_obs = 0
    /\ writes = 0
    /\ err = ""
    /\ report = NoReport
    /\ runs = 0
    /\ before = EmptyDb
    /\ repeat = FALSE
    /\ mpc = "start"
    /\ promos = <<>>
    /\ agg = <<>>
    /\ merr = ""
    /\ prices = <<>>
    /\ dfp = <<>>
    /\ out = <<>>
    /\ fpc = "start"
    /\ fin = <<>>
    /\ fout = <<>>
    /\ ppc = "start"
    /\ pargs = <<>>
    /\ pstage = 0
    /\ plog = <<>>
    /\ pexit = None

\* main(), lines 98-123: connect, create the schema (executescript commits
\* it), upsert the store inside the implicit transaction, zero the counters
Begin(store_id, observed_at, exists, file, rep) ==
    /\ runs < MaxRuns
    /\ runs' = runs + 1
    /\ before' = db
    /\ db' = [db EXCEPT !.schema = TRUE]
    /\ tx' = [db EXCEPT !.schema = TRUE,
                        !.stores = StoreUpsert(db.stores, store_id, DefaultChainId,
                                               None, None, None, observed_at)]
    /\ args' = [store_id |-> store_id, observed_at |-> observed_at,
                csv_exists |-> exists]
    /\ csv' = file
    /\ rows_read' = 0
    /\ inserted_products' = 0
    /\ upsert_current' = 0
    /\ appended_obs' = 0
    /\ writes' = 1
    /\ err' = ""
    /\ report' = NoReport
    /\ repeat' = rep
    /\ pc' = "open"
    /\ UNCHANGED <<fixture, mvars, fvars, pvars>>

Start ==
    /\ pc = "idle"
    /\ \E store_id \in StoreIds(fixture), observed_at \in ObservedAts(fixture) :
          \/ \E file \in CsvFiles(fixture) :
                Begin(store_id, observed_at, TRUE, file, FALSE)
          \/ Begin(store_id, observed_at, FALSE, <<>>, FALSE)

\* the same command line again, right after a run that committed
Rerun ==
    /\ pc = "done"
    /\ Begin(args.store_id, args.observed_at, args.csv_exists, csv, TRUE)

\* line 125: open(args.csv) succeeds
OpenCsv ==
    /\ pc = "open"
    /\ args.csv_exists
    /\ pc' = "loop"
    /\ UNCHANGED <<fixture, db, tx, args, csv, rows_read, inserted_products, upsert_current,
                   appended_obs, writes, err, report, runs, before, repeat, mvars, fvars, pvars>>

\* line 125: open(args.csv) raises FileNotFoundError; the process ends
\* without a commit
OpenFail ==
    /\ pc = "open"
    /\ ~args.csv_exists
    /\ pc' = "failed"
    /\ err' = "FileNotFoundError"
    /\ db' = Abandon(db, tx)
    /\ tx' = db'
    /\ UNCHANGED <<fixture, args, csv, rows_read, inserted_products, upsert_current,
                   appended_obs, writes, report, runs, before, repeat, mvars, fvars, pvars>>

\* one iteration of the loop of lines 127-197
LoopRow ==
    /\ pc = "loop"
    /\ rows_read < Len(csv)
    /\ LET row == csv[rows_read + 1]
           c == Converted[row]
       IN  /\ RowRaises(row) = ""
           /\ rows_read' = rows_read + 1
           /\ IF Skipped(row)
              THEN UNCHANGED <<tx, inserted_products, upsert_current,
                               appended_obs, writes>>
              ELSE LET ins == ObsInsert(tx.price_observations,
                                        <<args.store_id, c.barcode, args.observed_at>>,
                                        ObsRec(c, "merged.csv"))
                   IN  /\ tx' = [tx EXCEPT
                                   !.products =
                                       ProductUpsert(tx.products, c.barcode, c.name_long,
                                                     c.manufacturer, c.country, c.desc_short),
                                   !.current_prices =
                                       CurrentUpsert(tx.current_prices, args.store_id,
                                                     c.barcode,
                                                     CurrentRec(c, args.observed_at)),
                                   !.price_observations = ins.table]
                       /\ inserted_products' = inserted_products + 1
                       /\ upsert_current' = upsert_current + 1
                       /\ appended_obs' = appended_obs + ins.appended
                       /\ writes' = writes + 3
    /\ UNCHANGED <<fixture, db, pc, args, csv, err, report, runs, before, repeat, mvars, fvars, pvars>>

\* an iteration whose conversions raise (agorot, line 72): the exception
\* leaves main() and the process ends without a commit
LoopRaise ==
    /\ pc = "loop"
    /\ rows_read < Len(csv)
    /\ RowRaises(csv[rows_read + 1]) # ""
    /\ rows_read' = rows_read + 1
    /\ err' = RowRaises(csv[rows_read + 1])
    /\ pc' = "failed"
    /\ db' = Abandon(db, tx)
    /\ tx' = db'
    /\ UNCHANGED <<fixture, args, csv, inserted_products, upsert_current,
                   appended_obs, writes, report, runs, before, repeat, mvars, fvars, pvars>>

\* lines 199-206: commit, close, print the counts
Commit ==
    /\ pc = "loop"
    /\ rows_read = Len(csv)
    /\ db' = tx
    /\ report' = [rows_read |-> rows_read,
                  products_upserted |-> inserted_products,
                  current_prices_upserted |-> upsert_current,
                  observations_appended |-> appended_obs]
    /\ pc' = "done"
    /\ UNCHANGED <<fixture, tx, args, csv, rows_read, inserted_products,
                   upsert_current, appended_obs, writes, err, runs, before, repeat, mvars, fvars, pvars>>

\* the process is gone: nothing of it remains but the database
Exit ==
    /\ pc \in {"done", "failed"}
    /\ pc' = "idle"
    /\ args' = NoArgs
    /\ csv' = <<>>
    /\ rows_read' = 0
    /\ inserted_products' = 0
    /\ upsert_current' = 0
    /\ appended_obs' = 0
    /\ writes' = 0
    /\ err' = ""
    /\ report' = NoReport
    /\ before' = db
    /\ repeat' = FALSE
    /\ UNCHANGED <<fixture, db, tx, runs, mvars, fvars, pvars>>

\* sp_merge_day.main, lines 70-97: both feeds of the day are found and read,
\* the price lines are normalised
M_Read ==
    /\ mpc = "start"
    /\ \E feed \in PromoFeeds : promos' = feed
    /\ \E feed \in PriceFeeds : prices' = feed
    /\ dfp' = NormalizePrices(prices')
    /\ mpc' = "read"
    /\ UNCHANGED <<agg, merr, out, lvars, fvars, pvars>>

\* find_latest, lines 55-56: no file of the kind for the store and the day
M_FindFail ==
    /\ mpc = "start"
    /\ mpc' = "failed"
    /\ merr' = "FileNotFoundError"
    /\ UNCHANGED <<promos, agg, prices, dfp, out, lvars, fvars, pvars>>

\* lines 99-114
M_Aggregate ==
    /\ mpc = "read"
    /\ agg' = Aggregate(promos)
    /\ mpc' = "aggregated"
    /\ UNCHANGED <<promos, merr, prices, dfp, out, lvars, fvars, pvars>>

\* lines 116-130: join, has_promo, column order, sort, write the file
M_Join ==
    /\ mpc = "aggregated"
    /\ out' = MergedFile(dfp, agg)
    /\ mpc' = "written"
    /\ UNCHANGED <<promos, agg, merr, prices, dfp, lvars, fvars, pvars>>

\* what the loader stores for a price text, given to it as it is (line 142)
\* and as the merge writes it to the canonical file (lines 85, 127)
StoredPrice(text) ==
    [direct |-> agorot(text), merged |-> agorot(FloatCell(to_float(text)))]

\* load_sqlite.py line 142 on one decimal price, in both spellings
F_Price ==
    /\ fpc = "start"
    /\ \E sign \in Signs, whole \in PriceWholes, frac \in PriceFractions :
          /\ fin' = [sign |-> sign, whole |-> whole, frac |-> frac]
          /\ fout' = [dot |-> StoredPrice(sign \o whole \o <<".">> \o frac),
                      comma |-> StoredPrice(sign \o whole \o <<",">> \o frac)]
    /\ fpc' = "price"
    /\ UNCHANGED <<lvars, mvars, pvars>>

\* sp_merge_day.py lines 83-97 and 127 on a feed of one price line, then
\* load_sqlite.py lines 142 and 149 on the line written
F_Unit ==
    /\ fpc = "start"
    /\ \E price \in UnitPrices, quantity \in UnitQuantities, unitqty \in UnitQtyTexts :
          LET line == PriceLine(<<"1", "1", "1">>, <<"S", "o", "a", "p">>,
                                price, quantity, unitqty)
              row == NormalizePrices(<<line>>)[1]
              written == MergedFile(<<row>>, <<>>)[1]
          IN  /\ fin' = [price |-> price, quantity |-> quantity, unitqty |-> unitqty]
              /\ fout' = [per |-> [value |-> row.computed_unit_price,
                                   label |-> row.computed_unit_label],
                          written |-> written,
                          price_a |-> agorot(written.price),
                          per100_a |-> agorot(written.computed_unit_price)]
    /\ fpc' = "unit"
    /\ UNCHANGED <<lvars, mvars, pvars>>

\* ------------------------------------------------------------------------
\* sp_pipeline.py
\* ------------------------------------------------------------------------
\* the commands of lines 24, 25, 29, 32, in the order main() runs them
Stages == <<"fetch PriceFull", "fetch PromoFull", "merge", "load">>

\* command lines of the pipeline
Branches == {"Kiryat Ata", "Haifa"}
PipelineStores == {"072", "100"}
PipelineDates == {"2025-08-27", "2025-08-28"}

\* non-zero exit codes of a stage: an uncaught exception, sys.exit(2)
FailureCodes == {1, 2}

\* the last entry of the log with the exit code of the stage
Exited(log, code) == [log EXCEPT ![Len(log)].code = Some(code)]

\* main(), lines 10-21: the arguments are parsed, the directories made
P_Main ==
    /\ ppc = "start"
    /\ \E branch \in Branches, store_id \in PipelineStores, date \in PipelineDates :
          pargs' = [branch |-> branch, store_id |-> store_id, date |-> date]
    /\ pstage' = 1
    /\ ppc' = "ready"
    /\ UNCHANGED <<plog, pexit, lvars, mvars, fvars>>

\* run(), lines 6-7: the next command is started and waited for
P_Launch ==
    /\ ppc = "ready"
    /\ pstage <= Len(Stages)
    /\ plog' = Append(plog, [stage |-> Stages[pstage], code |-> None])
    /\ ppc' = "running"
    /\ UNCHANGED <<pargs, pstage, pexit, lvars, mvars, fvars>>

\* run(), lines 7-8: the command exits with 0, run() returns and main()
\* goes on to its next statement
P_StageOk ==
    /\ ppc = "running"
    /\ plog' = Exited(plog, 0)
    /\ pstage' = pstage + 1
    /\ ppc' = "ready"
    /\ UNCHANGED <<pargs, pexit, lvars, mvars, fvars>>

\* a run() that does not check the exit code: main() goes on
P_StageFailIgnored ==
    /\ ppc = "running"
    /\ \E code \in FailureCodes : plog' = Exited(plog, code)
    /\ pstage' = pstage + 1
    /\ ppc' = "ready"
    /\ UNCHANGED <<pargs, pexit, lvars, mvars, fvars>>

\* run(), line 7: the command exits with a non-zero code; check=True makes
\* subprocess.run raise CalledProcessError, which leaves main()
P_StageFail ==
    /\ ppc = "running"
    /\ \E code \in FailureCodes : plog' = Exited(plog, code)
    /\ ppc' = "raised"
    /\ UNCHANGED <<pargs, pstage, pexit, lvars, mvars, fvars>>

\* lines 39-40: sys.exit(e.returncode)
P_Abort ==
    /\ ppc = "raised"
    /\ pexit' = plog[Len(plog)].code
    /\ ppc' = "exited"
    /\ UNCHANGED <<pargs, pstage, plog, lvars, mvars, fvars>>

\* line 34: all commands returned; main() prints and the process exits with 0
P_Done ==
    /\ ppc = "ready"
    /\ pstage = Len(Stages) + 1
    /\ pexit' = Some(0)
    /\ ppc' = "exited"
    /\ UNCHANGED <<pargs, pstage, plog, lvars, mvars, fvars>>

Next ==
    \/ Start
    \/ Rerun
    \/ OpenCsv
    \/ OpenFail
    \/ LoopRow
    \/ LoopRaise
    \/ Commit
    \/ Exit

Spec == Init /\ [][Next]_vars

NextMerge ==
    \/ M_Read
    \/ M_FindFail
    \/ M_Aggregate
    \/ M_Join

InitMerge == Init /\ fixture = "catalog"

SpecMerge == InitMerge /\ [][NextMerge]_vars

NextConv ==
    \/ F_Price
    \/ F_Unit

InitConv == Init /\ fixture = "catalog"

SpecConv == InitConv /\ [][NextConv]_vars

NextPipeline ==
    \/ P_Main
    \/ P_Launch
    \/ P_StageOk
    \/ P_StageFail
    \/ P_Abort
    \/ P_Done

InitPipeline == Init /\ fixture = "catalog"

SpecPipeline == InitPipeline /\ [][NextPipeline]_vars

\* ------------------------------------------------------------------------
\* Properties of the loader
\* ------------------------------------------------------------------------
ProductFields == {"name", "manufacturer", "country", "description"}

Tables(d) == <<d.stores, d.products, d.current_prices, d.price_observations>>

\* the row the next iteration of the loop reads
CurrentRow == Rows[csv[rows_read + 1]]

\* a step that is one iteration of the loop applying its row
AppliesRow ==
    /\ pc = "loop"
    /\ pc' = "loop"
    /\ rows_read' = rows_read + 1
    /\ ~Skipped(csv[rows_read + 1])

\* the value a products column receives from a CSV row: the CSV description
\* feeds products.name and the CSV name feeds products.description
Incoming(row, f) ==
    CASE f = "name" -> norm(row.description)
      [] f = "manufacturer" -> norm(row.manufacturer)
      [] f = "country" -> norm(row.country)
      [] f = "description" -> norm(row.name)

NoRegress(old, new) ==
    \A b \in DOMAIN old.products : \A f \in ProductFields :
        old.products[b][f] # None =>
            b \in DOMAIN new.products /\ new.products[b][f] # None

\* C1: a products column that holds a non-null value is never null
\* afterwards, in the committed database and within a transaction; each
\* product upsert sets a column to the incoming value when that is non-empty
\* after trimming and keeps the stored value otherwise.
C1_ProductsNeverRegress ==
    [][ /\ NoRegress(db, db')
        /\ (pc' # "failed" => NoRegress(tx, tx'))
        /\ (AppliesRow =>
              LET b == Strip(CurrentRow.barcode) IN
              /\ b \in DOMAIN tx'.products
              /\ \A f \in ProductFields :
                    tx'.products[b][f] =
                        IF Incoming(CurrentRow, f) # None
                        THEN Incoming(CurrentRow, f)
                        ELSE IF b \in DOMAIN tx.products
                             THEN tx.products[b][f] ELSE None)
      ]_vars

\* a committed run that brought an empty manufacturer for a product whose
\* manufacturer was known, and the value is still there
C1_Witness ==
    /\ pc = "done"
    /\ \E j \in 1..Len(csv) :
          LET b == Strip(Rows[csv[j]].barcode) IN
          /\ ~Skipped(csv[j])
          /\ norm(Rows[csv[j]].manufacturer) = None
          /\ b \in DOMAIN before.products
          /\ before.products[b].manufacturer # None
          /\ db.products[b].manufacturer = before.products[b].manufacturer

\* C2: running the same file for the same store and timestamp again right
\* after a committed run completes without error, appends no observation
\* and leaves current_prices and products as the first run left them.
C2_RerunIsIdempotent ==
    repeat =>
        /\ pc # "failed"
        /\ pc = "done" =>
              /\ appended_obs = 0
              /\ report.observations_appended = 0
              /\ db.current_prices = before.current_prices
              /\ db.products = before.products

C2_Witness ==
    /\ repeat
    /\ pc = "done"
    /\ upsert_current >= 2
    /\ DOMAIN db.price_observations # {}

\* C3: a committed price_observations row is never changed or removed.
C3_ObservationsAppendOnly ==
    [][ /\ \A k \in DOMAIN db.price_observations :
              /\ k \in DOMAIN db'.price_observations
              /\ db'.price_observations[k] = db.price_observations[k]
        /\ \A k \in DOMAIN db'.price_observations :
              k \in DOMAIN tx'.price_observations
              /\ tx'.price_observations[k] = db'.price_observations[k]
      ]_vars

\* a committed run presented a recorded key with another price and the
\* recorded row kept its values
C3_Witness ==
    /\ pc = "done"
    /\ \E j \in 1..Len(csv) :
          LET k == <<args.store_id, Strip(Rows[csv[j]].barcode), args.observed_at>> IN
          /\ ~Skipped(csv[j])
          /\ k \in DOMAIN before.price_observations
          /\ before.price_observations[k].price_agorot # agorot(Rows[csv[j]].price).value
          /\ db.price_observations[k] = before.price_observations[k]

\* C4: applying a row replaces every column of the current_prices row of
\* (store_id, barcode) by the incoming value, null or empty included, and
\* leaves the rows of all other keys as they were.
C4_CurrentPriceReplaced ==
    [][ AppliesRow =>
          LET row == CurrentRow
              k == <<args.store_id, Strip(row.barcode)>>
          IN  /\ DOMAIN tx'.current_prices = DOMAIN tx.current_prices \cup {k}
              /\ tx'.current_prices[k].price_agorot = agorot(row.price).value
              /\ tx'.current_prices[k].quantity = ParseQty(row.quantity)
              /\ tx'.current_prices[k].qty_unit =
                    (IF row.qty_unit = <<>> THEN None ELSE Some(row.qty_unit))
              /\ tx'.current_prices[k].unit_price_per100_agorot =
                    agorot(row.computed_unit_price).value
              /\ tx'.current_prices[k].has_promo = booly(row.has_promo)
              /\ tx'.current_prices[k].reward_types = row.RewardTypes
              /\ tx'.current_prices[k].last_seen_at = args.observed_at
              /\ \A o \in DOMAIN tx.current_prices :
                    o # k => tx'.current_prices[o] = tx.current_prices[o]
      ]_vars

\* a stored quantity and unit price were replaced by NULL while another key
\* is in the table
C4_Witness ==
    /\ pc \in {"loop", "done"}
    /\ Cardinality(DOMAIN tx.current_prices) >= 2
    /\ \E k \in DOMAIN before.current_prices :
          /\ before.current_prices[k].quantity # None
          /\ before.current_prices[k].unit_price_per100_agorot # None
          /\ tx.current_prices[k].quantity = None
          /\ tx.current_prices[k].unit_price_per100_agorot = None

\* C5: nothing a run writes is visible before its commit, and a run that
\* fails leaves the four tables as they were when it started.
C5_FailedRunLeavesNoTrace ==
    /\ pc \in {"open", "loop"} => Tables(db) = Tables(before)
    /\ pc = "failed" => Tables(db) = Tables(before) /\ Tables(tx) = Tables(before)

\* a run failed after the store upsert and the three writes of a row
C5_Witness ==
    /\ pc = "failed"
    /\ err = "ValueError"
    /\ upsert_current >= 1
    /\ writes >= 4

NotSkippedCount == Cardinality({j \in 1..Len(csv) : ~Skipped(csv[j])})

\* C6: rows with an empty barcode or an unparsable price write nothing, the
\* rest of the batch is processed, and the run reports how many were skipped.
C6_SkippedRowsReported ==
    pc = "done" =>
        /\ rows_read = Len(csv)
        /\ inserted_products = NotSkippedCount
        /\ upsert_current = NotSkippedCount
        /\ "rows_skipped" \in DOMAIN report
        /\ report.rows_skipped = Len(csv) - NotSkippedCount

\* C7: no field value of a row makes a conversion raise, and no run is
\* ended by a conversion.
C7_NoConversionRaises ==
    /\ \A j \in 1..rows_read : RowRaises(csv[j]) = ""
    /\ ~(pc = "failed" /\ err \in {"ValueError", "OverflowError"})

\* C8: a run whose CSV file does not exist fails with FileNotFoundError
\* before it has executed any write: no schema creation, no store upsert.
C8_MissingFileFailsBeforeWrites ==
    (pc = "failed" /\ ~args.csv_exists) =>
        /\ err = "FileNotFoundError"
        /\ writes = 0
        /\ db.schema = before.schema

\* C15: every price stored in current_prices and in price_observations is a
\* non-negative integer, whatever the price text of the row.
C15_StoredPricesNonNegative ==
    /\ \A k \in DOMAIN db.current_prices :
          /\ db.current_prices[k].price_agorot # None
          /\ db.current_prices[k].price_agorot[1] >= 0
    /\ \A k \in DOMAIN db.price_observations :
          /\ db.price_observations[k].price_agorot # None
          /\ db.price_observations[k].price_agorot[1] >= 0

\* the timestamps of the model, oldest first
Timeline == <<"2025-08-27 07:00", "2025-08-28 07:00">>

\* a is older than b
Older(a, b) ==
    \E i, j \in 1..Len(Timeline) : i < j /\ Timeline[i] = a /\ Timeline[j] = b

\* C16: after any sequence of runs, in any order of their timestamps, the
\* current_prices row of a (store_id, barcode) has a last_seen_at that is
\* not older than any observed_at of the price_observations of that key.
C16_CurrentPriceNeverStale ==
    \A k \in DOMAIN db.current_prices, o \in DOMAIN db.price_observations :
        (o[1] = k[1] /\ o[2] = k[2]) =>
            ~Older(db.current_prices[k].last_seen_at, o[3])

\* price, unit price per 100, has_promo and reward_types of a stored row,
\* and of a row of the file
OfferOf(rec) ==
    [price |-> rec.price_agorot, per100 |-> rec.unit_price_per100_agorot,
     has_promo |-> rec.has_promo, reward_types |-> rec.reward_types]

Offer(n) ==
    [price |-> agorot(Rows[n].price).value,
     per100 |-> agorot(Rows[n].computed_unit_price).value,
     has_promo |-> booly(Rows[n].has_promo),
     reward_types |-> Rows[n].RewardTypes]

\* the rows of the batch that the run applied, and those of one barcode
Applied == {j \in 1..Len(csv) : ~Skipped(csv[j])}
Listings(j) == {i \in Applied : Strip(Rows[csv[i]].barcode) = Strip(Rows[csv[j]].barcode)}
FirstOf(S) == CHOOSE i \in S : \A k \in S : i <= k
LastOf(S) == CHOOSE i \in S : \A k \in S : k <= i

CurrentKey(j) == <<args.store_id, Strip(Rows[csv[j]].barcode)>>
ObsKey(j) == <<args.store_id, Strip(Rows[csv[j]].barcode), args.observed_at>>

\* C18 as stated: when a run commits, for every (store_id, barcode) it
\* wrote, the price_observations row of the run's observed_at holds the same
\* price, unit price per 100, has_promo and reward_types as the
\* current_prices row, also when the batch lists the barcode twice with
\* different values or repeats a recorded observed_at with different values.
C18_ObservationMatchesCurrent ==
    pc = "done" =>
        \A j \in Applied :
            /\ CurrentKey(j) \in DOMAIN db.current_prices
            /\ ObsKey(j) \in DOMAIN db.price_observations
            /\ OfferOf(db.price_observations[ObsKey(j)])
                  = OfferOf(db.current_prices[CurrentKey(j)])

\* C18 amended: when a run commits, for every (store_id, barcode) it wrote,
\* the price_observations row of the run's observed_at holds the values
\* first stored under that key (by an earlier run with the same observed_at,
\* else by the first listing of the barcode in the batch) and the
\* current_prices row holds those of the last listing; the two agree when
\* all listings of the barcode carry the same values and no observation
\* with other values was recorded for the key before the run.
C18_ObservationFirstCurrentLast ==
    pc = "done" =>
        \A j \in Applied :
            LET first == csv[FirstOf(Listings(j))]
                last == csv[LastOf(Listings(j))]
                recorded == ObsKey(j) \in DOMAIN before.price_observations
            IN  /\ CurrentKey(j) \in DOMAIN db.current_prices
                /\ ObsKey(j) \in DOMAIN db.price_observations
                /\ OfferOf(db.current_prices[CurrentKey(j)]) = Offer(last)
                /\ OfferOf(db.price_observations[ObsKey(j)]) =
                      (IF recorded
                       THEN OfferOf(before.price_observations[ObsKey(j)])
                       ELSE Offer(first))
                /\ ( /\ \A i \in Listings(j) : Offer(csv[i]) = Offer(last)
                     /\ recorded =>
                           OfferOf(before.price_observations[ObsKey(j)]) = Offer(last) )
                   => OfferOf(db.price_observations[ObsKey(j)])
                        = OfferOf(db.current_prices[CurrentKey(j)])

\* a run that lists a barcode twice with the same values and repeats a
\* recorded observed_at
C18_Witness ==
    /\ pc = "done"
    /\ \E j \in Applied :
          /\ Cardinality(Listings(j)) = 2
          /\ ObsKey(j) \in DOMAIN before.price_observations
          /\ Offer(csv[j]).has_promo = 1
          /\ OfferOf(db.price_observations[ObsKey(j)])
                = OfferOf(db.current_prices[CurrentKey(j)])

\* ------------------------------------------------------------------------
\* Properties of the promotion aggregate
\* ------------------------------------------------------------------------
Permuted(lines) ==
    {[k \in 1..Len(lines) |-> lines[p[k]]] : p \in Permutations(1..Len(lines))}

\* text.split(",")
RECURSIVE Split(_)
Split(text) ==
    IF \A k \in 1..Len(text) : text[k] # ","
    THEN <<text>>
    ELSE LET c == CHOOSE k \in 1..Len(text) :
                     text[k] = "," /\ \A j \in 1..(k - 1) : text[j] # ","
         IN  <<SubSeq(text, 1, c - 1)>> \o Split(SubSeq(text, c + 1, Len(text)))

Listed(text) == IF text = <<>> THEN <<>> ELSE Split(text)

\* list is the ascending, duplicate-free list of the non-empty entries of values
SortedSetOf(list, values) ==
    /\ Range(list) = {v \in Range(values) : v # <<>>}
    /\ \A k \in 1..(Len(list) - 1) : StrLess(list[k], list[k + 1])

\* C9: the aggregate is the same for every order of the promotion lines, and
\* the PromotionIds and RewardTypes of a group are the ascending,
\* duplicate-free lists of the non-empty values of the group's lines.
C9_AggregateIgnoresOrder ==
    mpc = "aggregated" =>
        /\ \A lines \in Permuted(promos) : Aggregate(lines) = agg
        /\ Len(agg) = Len(GroupKeys(promos))
        /\ \A i \in 1..Len(agg) :
              LET g == Select(promos, GroupKeys(promos)[i]) IN
              /\ SortedSetOf(Listed(agg[i].PromotionIds), Column(g, "PromotionId"))
              /\ SortedSetOf(Listed(agg[i].RewardTypes), Column(g, "RewardType"))

\* a group of three lines that arrive in descending order of promotion id
C9_Witness ==
    /\ mpc = "aggregated"
    /\ Len(promos) = 3
    /\ \E i \in 1..Len(agg) :
          /\ Len(Listed(agg[i].PromotionIds)) = 3
          /\ StrLess(promos[3].PromotionId, promos[2].PromotionId)
          /\ StrLess(promos[2].PromotionId, promos[1].PromotionId)

Accepted(v) == Lower(v) \in TrueTokens

\* C10: any_gift (any_multi_discount) of a group is true exactly when one of
\* its lines has an IsGiftItem (AllowMultipleDiscounts) that is, ignoring
\* case, one of "1", "true", "yes", "y", "t".
C10_FlagsAcceptTokens ==
    mpc = "aggregated" =>
        \A i \in 1..Len(agg) :
            LET g == Select(promos, GroupKeys(promos)[i]) IN
            /\ (agg[i].AnyGift = <<"1">>) <=>
                   (\E k \in 1..Len(g) : Accepted(g[k].IsGiftItem))
            /\ (agg[i].AnyMulti = <<"1">>) <=>
                   (\E k \in 1..Len(g) : Accepted(g[k].AllowMultipleDiscounts))

\* ------------------------------------------------------------------------
\* Properties of the join
\* ------------------------------------------------------------------------
\* the promotion feed has a line for the barcode
HasPromoLine(barcode) == \E k \in 1..Len(promos) : Strip(promos[k].ItemCode) = barcode

ZeroOrOne == { <<"0">>, <<"1">> }

\* C11: a price record whose barcode has no promotion line is written with
\* has_promo false, empty PromotionIds and RewardTypes, and AnyGift and
\* AnyMulti "0"; every row of the file has AnyGift and AnyMulti in "1", "0".
C11_UnmatchedRowsGetDefaults ==
    mpc = "written" =>
        \A i \in 1..Len(out) :
            /\ out[i].AnyGift \in ZeroOrOne
            /\ out[i].AnyMulti \in ZeroOrOne
            /\ ~HasPromoLine(out[i].barcode) =>
                   /\ out[i].has_promo = BoolCell(FALSE)
                   /\ out[i].PromotionIds = <<>>
                   /\ out[i].RewardTypes = <<>>
                   /\ out[i].AnyGift = <<"0">>
                   /\ out[i].AnyMulti = <<"0">>

\* the barcodes of the price feed
PriceBarcodes == {Strip(prices[k].ItemCode) : k \in 1..Len(prices)}

\* C14: the canonical file has exactly one row per product of the batch: no
\* barcode is in more than one row and the join never multiplies a price
\* record, also when the price feed lists a barcode twice or promotion
\* lines differ only by whitespace around the barcode.
C14_OneRowPerBarcode ==
    mpc = "written" =>
        /\ \A i, j \in 1..Len(out) : out[i].barcode = out[j].barcode => i = j
        /\ {out[i].barcode : i \in 1..Len(out)} = PriceBarcodes
        /\ Len(out) <= Len(prices)

\* ------------------------------------------------------------------------
\* Properties of the field conversions
\* ------------------------------------------------------------------------
Abs(n) == IF n < 0 THEN 0 - n ELSE n

Per100g == <<"p", "e", "r", "_", "1", "0", "0", "g">>
Per100ml == <<"p", "e", "r", "_", "1", "0", "0", "m", "l">>

RoundHalfAway(n, d) == (2 * n + d) \div (2 * d)

\* C13: a decimal price is stored as the same integer whether it is written
\* with '.' or with ',', and that integer is the value times 100 rounded
\* half away from zero.
C13_PriceRoundsHalfAway ==
    fpc = "price" =>
        LET m == RoundHalfAway(DigitsVal(fin.whole \o fin.frac) * 100,
                               Pow10(Len(fin.frac)))
            expected == [raised |-> "",
                         value |-> Some(IF fin.sign = <<"-">> THEN 0 - m ELSE m)]
        IN  /\ fout.dot.direct = fout.comma.direct
            /\ fout.dot.merged = fout.comma.merged
            /\ fout.dot.direct = expected
            /\ fout.dot.merged = expected

\* ------------------------------------------------------------------------
\* Properties of the pipeline
\* ------------------------------------------------------------------------
\* C17: the stages run in the order fetch prices, fetch promotions, merge,
\* load, each at most once and all four in a run that succeeds; a stage
\* starts only after the previous one exited with 0; after a non-zero exit
\* no later stage runs and the pipeline exits with that code.
C17_StagesInOrderFailFast ==
    /\ Len(plog) <= Len(Stages)
    /\ \A i \in 1..Len(plog) : plog[i].stage = Stages[i]
    /\ \A i \in 1..(Len(plog) - 1) : plog[i].code = Some(0)
    /\ pexit # None => ppc = "exited"
    /\ ppc = "exited" =>
          /\ plog # <<>>
          /\ pexit = plog[Len(plog)].code
          /\ pexit # None
          /\ pexit = Some(0) => Len(plog) = Len(Stages)

\* the merge failed: the load never ran and the pipeline exited with the
\* code of the merge
C17_Witness ==
    /\ ppc = "exited"
    /\ Len(plog) = 3
    /\ plog[3] = [stage |-> "merge", code |-> Some(1)]
    /\ pexit = Some(1)

====
